---------------------------- MODULE Spec2Model ----------------------------
(***************************************************************************)
(* bilibili_api.article: the Article facade (get_all, fetch_content,       *)
(* markdown, json), the HTML walker `parse` nested in fetch_content, and   *)
(* the Node classes with their markdown()/json() renderers.                *)
(*                                                                         *)
(* Strings are sequences of lexical tokens (a token is a TLA+ string):     *)
(* "color-blue-01" is <<"color", "-", "blue-01">>, "//host/x.png" is       *)
(* <<"//", "host/x.png">>, "&amp;lt;" is <<"&", "amp;", "lt;">>.           *)
(* Substring tests, split, replace, slicing and concatenation work on the  *)
(* tokens.  Python's None is the one-token string <<"<None>">> and a bs4   *)
(* Tag stored where a string is expected is <<"<Tag>">>.                   *)
(***************************************************************************)
EXTENDS Integers, Sequences, FiniteSets, TLC

(***************************************************************************)
(* String helpers                                                          *)
(***************************************************************************)
None == <<"<None>">>
TagObj == <<"<Tag>">>

\* sub in s
Contains(s, sub) ==
    \E i \in 1..(Len(s) - Len(sub) + 1) : SubSeq(s, i, i + Len(sub) - 1) = sub

\* index just past the first occurrence of sub in s (0 when there is none)
AfterFirst(s, sub) ==
    IF Contains(s, sub)
    THEN (CHOOSE i \in 1..(Len(s) - Len(sub) + 1) :
             /\ SubSeq(s, i, i + Len(sub) - 1) = sub
             /\ \A j \in 1..(i - 1) : SubSeq(s, j, j + Len(sub) - 1) # sub)
         + Len(sub)
    ELSE 0

RECURSIVE Replace(_, _, _)
\* s.replace(c, r) for a one-token pattern c
Replace(s, c, r) ==
    IF s = <<>> THEN <<>>
    ELSE (IF Head(s) = c THEN r ELSE <<Head(s)>>) \o Replace(Tail(s), c, r)

RECURSIVE Split(_, _)
\* s.split(sep) for a one-token separator
Split(s, sep) ==
    IF \A i \in 1..Len(s) : s[i] # sep THEN <<s>>
    ELSE LET k == CHOOSE i \in 1..Len(s) :
                      s[i] = sep /\ \A j \in 1..(i - 1) : s[j] # sep
         IN <<SubSeq(s, 1, k - 1)>> \o Split(SubSeq(s, k + 1, Len(s)), sep)

RECURSIVE Flatten(_)
\* "".join(parts)
Flatten(parts) ==
    IF parts = <<>> THEN <<>> ELSE Head(parts) \o Flatten(Tail(parts))

\* the numerals the inputs use, with their values
Numerals ==
    [t \in {"100", "200", "7", "16", "22"} |->
        CASE t = "100" -> 100 [] t = "200" -> 200 [] t = "7" -> 7
          [] t = "16" -> 16 [] t = "22" -> 22]

TwoDigits == {"16", "22"}

\* int(s) succeeds
IsInt(s) == Len(s) = 1 /\ s[1] \in DOMAIN Numerals

\* int(s)
ToInt(s) == Numerals[s[1]]

\* urllib.parse.unquote: percent escapes become the characters they encode
Unquote(s) ==
    [i \in 1..Len(s) |->
        CASE s[i] = "%26" -> "&"
          [] s[i] = "%3C" -> "<"
          [] s[i] = "%5C" -> "\\"
          [] OTHER -> s[i]]

\* str.lower
Lower(s) ==
    [i \in 1..Len(s) |->
        CASE s[i] = "Python" -> "python"
          [] s[i] = "C" -> "c"
          [] OTHER -> s[i]]

RECURSIVE Unescape(_)
\* html.unescape: one left-to-right pass, each character reference replaced
\* once; the replacement text is not scanned again
Unescape(s) ==
    IF s = <<>> THEN <<>>
    ELSE IF Len(s) >= 2 /\ s[1] = "&" /\ s[2] = "amp;"
         THEN <<"&">> \o Unescape(SubSeq(s, 3, Len(s)))
    ELSE IF Len(s) >= 2 /\ s[1] = "&" /\ s[2] = "lt;"
         THEN <<"<">> \o Unescape(SubSeq(s, 3, Len(s)))
    ELSE <<Head(s)>> \o Unescape(Tail(s))

\* yarl.URL(url).scheme; URL(None) raises TypeError (see ImageNode)
Scheme(url) ==
    IF Len(url) >= 1 /\ url[1] \in {"https:", "http:"} THEN url[1] ELSE ""

(***************************************************************************)
(* ARTICLE_COLOR_MAP                                                       *)
(***************************************************************************)
ColorTable ==
    << <<"default", "222222">>, <<"blue-01", "56c1fe">>, <<"lblue-01", "73fdea">>,
       <<"green-01", "89fa4e">>, <<"yellow-01", "fff359">>, <<"pink-01", "ff968d">>,
       <<"purple-01", "ff8cc6">>, <<"blue-02", "02a2ff">>, <<"lblue-02", "18e7cf">>,
       <<"green-02", "60d837">>, <<"yellow-02", "fbe231">>, <<"pink-02", "ff654e">>,
       <<"purple-02", "ef5fa8">>, <<"blue-03", "0176ba">>, <<"lblue-03", "068f86">>,
       <<"green-03", "1db100">>, <<"yellow-03", "f8ba00">>, <<"pink-03", "ee230d">>,
       <<"purple-03", "cb297a">>, <<"blue-04", "004e80">>, <<"lblue-04", "017c76">>,
       <<"green-04", "017001">>, <<"yellow-04", "ff9201">>, <<"pink-04", "b41700">>,
       <<"purple-04", "99195e">>, <<"gray-01", "d6d5d5">>, <<"gray-02", "929292">>,
       <<"gray-03", "5f5f5f">> >>

ARTICLE_COLOR_MAP ==
    [n \in {ColorTable[i][1] : i \in DOMAIN ColorTable} |->
        ColorTable[CHOOSE i \in DOMAIN ColorTable : ColorTable[i][1] = n][2]]

\* color_text in ARTICLE_COLOR_MAP
KnownColor(color_text) ==
    Len(color_text) = 1 /\ color_text[1] \in DOMAIN ARTICLE_COLOR_MAP

\* a lookup that falls back to black: ARTICLE_COLOR_MAP.get(color_text, "000000")
ColorLookupDefault(color_text) ==
    IF KnownColor(color_text)
    THEN [exc |-> "", color |-> ARTICLE_COLOR_MAP[color_text[1]]]
    ELSE [exc |-> "", color |-> "000000"]
\* ARTICLE_COLOR_MAP[color_text]: the hex string, or KeyError
ColorLookup(color_text) ==
    IF KnownColor(color_text)
    THEN [exc |-> "", color |-> ARTICLE_COLOR_MAP[color_text[1]]]
    ELSE [exc |-> "KeyError", color |-> ""]

(***************************************************************************)
(* The markup tree bs4 hands to the walker                                 *)
(***************************************************************************)
NoAttrs == [n \in {} |-> <<>>]

\* a NavigableString
Txt(s) == [tag |-> "#text", text |-> s]

\* a Tag
El(tag, attrs, contents) == [tag |-> tag, attrs |-> attrs, contents |-> contents]

IsText(e) == e.tag = "#text"

RECURSIVE TextOf(_)
\* Tag.text: the text of all descendants
TextOf(e) ==
    IF IsText(e) THEN e.text
    ELSE Flatten([i \in 1..Len(e.contents) |-> TextOf(e.contents[i])])

RECURSIVE Descendants(_)
\* the elements below e, in document order
Descendants(e) ==
    IF IsText(e) THEN <<>>
    ELSE Flatten([i \in 1..Len(e.contents) |->
                    <<e.contents[i]>> \o Descendants(e.contents[i])])

\* Tag.find(name) found something
HasFind(e, name) == \E i \in 1..Len(Descendants(e)) : Descendants(e)[i].tag = name

\* Tag.find(name): the first descendant with that tag
Find(e, name) ==
    LET d == Descendants(e)
    IN d[CHOOSE i \in 1..Len(d) :
            d[i].tag = name /\ \A j \in 1..(i - 1) : d[j].tag # name]

\* list membership, as in `"img-box" in className`
InList(x, list) == \E i \in 1..Len(list) : list[i] = x


(***************************************************************************)
(* Node constructors (the __init__ defaults of the Node classes).  src is  *)
(* the path of the source element from the root (child indices): it is     *)
(* not a field of the Python object and no renderer reads it.              *)
(***************************************************************************)
Container(type, src) == [type |-> type, src |-> src, children |-> <<>>]
ParagraphNode(src) == [type |-> "ParagraphNode", src |-> src, children |-> <<>>, align |-> "left"]
ColorNode(src) == [type |-> "ColorNode", src |-> src, children |-> <<>>, color |-> "000000"]
FontSizeNode(src) == [type |-> "FontSizeNode", src |-> src, children |-> <<>>, size |-> 16]
TextNode(src, text) == [type |-> "TextNode", src |-> src, text |-> text]
ImageNode(src) == [type |-> "ImageNode", src |-> src, url |-> <<>>, alt |-> <<>>]
LatexNode(src) == [type |-> "LatexNode", src |-> src, code |-> <<>>]
CodeNode(src) == [type |-> "CodeNode", src |-> src, code |-> <<>>, lang |-> <<>>]
AnchorNode(src) == [type |-> "AnchorNode", src |-> src, url |-> <<>>, text |-> <<>>]
SeparatorNode(src) == [type |-> "SeparatorNode", src |-> src]
\* VideoCardNode(aid), ArticleCardNode(cvid), BangumiCardNode(epid),
\* MusicCardNode(auid), ShopCardNode(pwid), ComicCardNode(mcid),
\* LiveCardNode(room_id): id is the one field of the card
CardNode(type, src, id) == [type |-> type, src |-> src, id |-> id]

ContainerTypes ==
    {"ParagraphNode", "HeadingNode", "BlockquoteNode", "ItalicNode", "BoldNode",
     "DelNode", "UnderlineNode", "UlNode", "OlNode", "LiNode", "ColorNode",
     "FontSizeNode"}

IsContainer(n) == n.type \in ContainerTypes

(***************************************************************************)
(* The walker.  A run of parse is a coroutine whose only suspension is     *)
(* `await parse_link(href)`.  `links` holds the outcomes parse_link has    *)
(* delivered to this run so far, in the order the run asked for them; the  *)
(* walker consumes them front to back and stops with status "await" when   *)
(* it needs one that has not arrived.  Outcomes: a ResourceType name, or   *)
(* "raise" when parse_link raised.                                         *)
(***************************************************************************)
Done(nodes, links) ==
    [status |-> "done", nodes |-> nodes, links |-> links, exc |-> "", href |-> <<>>]
Raise(exc) ==
    [status |-> "raise", nodes |-> <<>>, links |-> <<>>, exc |-> exc, href |-> <<>>]
Await(href) ==
    [status |-> "await", nodes |-> <<>>, links |-> <<>>, exc |-> "", href |-> href]

\* the nodes put in front of the list instead of behind it
AppendNodesFirst(node_list, nodes) == nodes \o node_list
\* node_list.append(node) / node_list += nodes
AppendNodes(node_list, nodes) == node_list \o nodes

\* the figcaption lookup shared by both ImageNode branches of <figure>
FigureImage(e, src) ==
    LET img == Find(e, "img")
    IN IF "data-src" \notin DOMAIN img.attrs THEN Raise("KeyError")
       ELSE LET alt == IF HasFind(e, "figcaption")
                          /\ Find(e, "figcaption").contents # <<>>
                       THEN LET c == Find(e, "figcaption").contents[1]
                            IN IF IsText(c) THEN c.text ELSE TagObj
                       ELSE <<>>
            IN Done(<<[ImageNode(src) EXCEPT !.url = img.attrs["data-src"],
                                             !.alt = alt]>>, <<>>)

\* the walk goes on after `nodes` were appended: r is what the rest of it gives
Before(nodes, r) ==
    IF r.status # "done" THEN r ELSE Done(nodes \o r.nodes, r.links)

\* r came from a branch that awaits nothing: the link outcomes stay as they were
Keep(r, links) ==
    IF r.status # "done" THEN r ELSE Done(r.nodes, links)

\* two branches one after the other, neither awaiting: the first that raises
\* ends the walk
Then(first, second) ==
    IF first.status # "done" THEN first ELSE Before(first.nodes, second)

\* the branch without its loop: one card, for the first id only
CardListFirstOnly(type, src, parts) ==
    IF parts = <<>> THEN Done(<<>>, <<>>)
    ELSE IF ~IsInt(Head(parts)) THEN Raise("ValueError")
    ELSE Done(<<CardNode(type, src, ToInt(Head(parts)))>>, <<>>)

RECURSIVE CardList(_, _, _)
\* for a in aid.split(","): node = Card(); node_list.append(node); node.id = int(a)
CardList(type, src, parts) ==
    IF parts = <<>> THEN Done(<<>>, <<>>)
    ELSE IF ~IsInt(Head(parts)) THEN Raise("ValueError")
    ELSE Before(<<CardNode(type, src, ToInt(Head(parts)))>>,
                CardList(type, src, Tail(parts)))

\* the card branch of <figure class="img-box">
FigureCards(img, src) ==
    LET className == img.attrs["class"]
        aid == img.attrs["aid"]
        one(type, s) == IF IsInt(s) THEN Done(<<CardNode(type, src, ToInt(s))>>, <<>>)
                        ELSE Raise("ValueError")
        cut(s) == SubSeq(s, 3, Len(s))
    IN IF InList(<<"video-card">>, className)
            THEN CardList("VideoCardNode", src, Split(aid, ","))
       ELSE IF InList(<<"article-card">>, className) THEN one("ArticleCardNode", aid)
       ELSE IF InList(<<"fanju-card">>, className) THEN one("BangumiCardNode", cut(aid))
       ELSE IF InList(<<"music-card">>, className) THEN one("MusicCardNode", cut(aid))
       ELSE IF InList(<<"shop-card">>, className) THEN one("ShopCardNode", cut(aid))
       ELSE IF InList(<<"caricature-card">>, className)
            THEN CardList("ComicCardNode", src, Split(aid, ","))
       ELSE IF InList(<<"live-card">>, className) THEN one("LiveCardNode", aid)
       ELSE Done(<<>>, <<>>)

\* elif e.name == "figure"
Figure(e, src) ==
    IF "class" \notin DOMAIN e.attrs THEN Done(<<>>, <<>>)
    ELSE IF InList(<<"img-box">>, e.attrs["class"]) THEN
        IF ~HasFind(e, "img") THEN Done(<<>>, <<>>)
        ELSE LET img == Find(e, "img")
             IN IF "class" \in DOMAIN img.attrs THEN
                   Before(IF InList(<<"cut-off">>, img.attrs["class"])
                          THEN <<SeparatorNode(src)>> ELSE <<>>,
                          Then(IF "aid" \in DOMAIN img.attrs
                               THEN FigureCards(img, src) ELSE Done(<<>>, <<>>),
                               IF InList(<<"seamless">>, img.attrs["class"])
                               THEN FigureImage(e, src) ELSE Done(<<>>, <<>>)))
                ELSE FigureImage(e, src)
    ELSE IF InList(<<"code-box">>, e.attrs["class"]) THEN
        IF ~HasFind(e, "pre") THEN Raise("AttributeError")
        ELSE LET pre == Find(e, "pre")
             IN IF "data-lang" \notin DOMAIN pre.attrs
                   \/ "codecontent" \notin DOMAIN pre.attrs
                THEN Raise("KeyError")
                ELSE Done(<<[CodeNode(src) EXCEPT
                               !.lang = Lower(Split(pre.attrs["data-lang"], "@")[1]),
                               !.code = Unquote(pre.attrs["codecontent"])]>>, <<>>)
    ELSE Done(<<>>, <<>>)

\* elif e.name == "img"
Img(e, src) ==
    IF "class" \notin DOMAIN e.attrs THEN Raise("TypeError")
    ELSE IF InList(<<"latex">>, e.attrs["class"]) THEN
        IF "alt" \notin DOMAIN e.attrs THEN Raise("KeyError")
        ELSE Done(<<[LatexNode(src) EXCEPT !.code = Unquote(e.attrs["alt"])]>>, <<>>)
    ELSE Done(<<[ImageNode(src) EXCEPT
                   !.url = IF "data-src" \in DOMAIN e.attrs
                           THEN e.attrs["data-src"] ELSE None]>>, <<>>)

\* parse_link_res[0].get_aid() and the like: the id of the resource the link names
ResourceId(href) == Numerals[href[Len(href)]]

\* elif e.name == "a", after parse_link has answered (or for a non-empty <a>);
\* "LinkError" stands for whatever exception parse_link raised
Anchor(e, src, outcome) ==
    IF Len(e.contents) = 0 THEN
        CASE outcome = "raise" -> Raise("LinkError")
          [] outcome = "VIDEO" -> Done(<<CardNode("VideoCardNode", src, ResourceId(e.attrs["href"]))>>, <<>>)
          [] outcome = "AUDIO" -> Done(<<CardNode("MusicCardNode", src, ResourceId(e.attrs["href"]))>>, <<>>)
          [] outcome = "LIVE" -> Done(<<CardNode("LiveCardNode", src, ResourceId(e.attrs["href"]))>>, <<>>)
          [] outcome = "ARTICLE" -> Done(<<CardNode("ArticleCardNode", src, ResourceId(e.attrs["href"]))>>, <<>>)
          [] OTHER -> Done(<<>>, <<>>)
    ELSE Done(<<[AnchorNode(src) EXCEPT
                   !.url = e.attrs["href"],
                   !.text = IF IsText(e.contents[1]) THEN e.contents[1].text
                            ELSE TagObj]>>, <<>>)

ContainerTags ==
    [t \in {"h1", "strong", "blockquote", "ol", "li", "ul"} |->
        CASE t = "h1" -> "HeadingNode" [] t = "strong" -> "BoldNode"
          [] t = "blockquote" -> "BlockquoteNode" [] t = "ol" -> "OlNode"
          [] t = "li" -> "LiNode" [] t = "ul" -> "UlNode"]

\* <p>: the align the style gives
ParagraphAlign(e) ==
    IF "style" \notin DOMAIN e.attrs THEN "left"
    ELSE IF Contains(e.attrs["style"], <<"text-align: center">>) THEN "center"
    ELSE IF Contains(e.attrs["style"], <<"text-align: right">>) THEN "right"
    ELSE "left"

RECURSIVE parse(_, _, _)
RECURSIVE ParseFrom(_, _, _, _, _)
RECURSIVE ParseElement(_, _, _)

\* node = X(); node_list.append(node); node.children = await parse(e)
Adopt(node, r) ==
    IF r.status # "done" THEN r
    ELSE Done(<<[node EXCEPT !.children = r.nodes]>>, r.links)
Wrap(node, e, src, links) == Adopt(node, parse(e, src, links))

\* `if e.text != "": node_list += await parse(e)` after the <span style> test
SpanText(e, src, del) ==
    IF del.status # "done" THEN del
    ELSE IF TextOf(e) # <<>>
         THEN Before(del.nodes, parse(e, src, del.links))
    ELSE del

\* elif e.name == "span"
Span(e, src, links) ==
    IF "style" \in DOMAIN e.attrs THEN
        SpanText(e, src,
                 IF Contains(e.attrs["style"], <<"text-decoration: line-through">>)
                 THEN Wrap(Container("DelNode", src), e, src, links)
                 ELSE Done(<<>>, links))
    ELSE IF "class" \in DOMAIN e.attrs THEN
        LET className == e.attrs["class"][1]
        IN IF Contains(className, <<"font-size">>) THEN
               LET k == AfterFirst(className, <<"font-size", "-">>)
               IN IF k = 0 \/ k > Len(className) \/ className[k] \notin TwoDigits
                  THEN Raise("TypeError")
                  ELSE Wrap([FontSizeNode(src) EXCEPT !.size = Numerals[className[k]]],
                            e, src, links)
           ELSE IF Contains(className, <<"color">>) THEN
               LET k == AfterFirst(className, <<"color", "-">>)
                   color_text == SubSeq(className, k, Len(className))
               IN IF k = 0 THEN Raise("TypeError")
                  ELSE IF ColorLookup(color_text).exc # ""
                  THEN Raise(ColorLookup(color_text).exc)
                  ELSE Wrap([ColorNode(src) EXCEPT !.color = ColorLookup(color_text).color],
                            e, src, links)
           ELSE IF TextOf(e) # <<>> THEN parse(e, src, links)
           ELSE Done(<<>>, links)
    ELSE Done(<<>>, links)

\* one turn of `for e in el.contents`: the nodes e adds to node_list
ParseElement(e, src, links) ==
    IF IsText(e) THEN Done(<<TextNode(src, e.text)>>, links)
    ELSE IF e.tag = "p"
         THEN Wrap([ParagraphNode(src) EXCEPT !.align = ParagraphAlign(e)], e, src, links)
    ELSE IF e.tag \in DOMAIN ContainerTags
         THEN Wrap(Container(ContainerTags[e.tag], src), e, src, links)
    ELSE IF e.tag = "span" THEN Span(e, src, links)
    ELSE IF e.tag = "figure"
         THEN Keep(Figure(e, src), links)
    ELSE IF e.tag = "a" THEN
        IF Len(e.contents) = 0 THEN
            IF "href" \notin DOMAIN e.attrs THEN Raise("KeyError")
            ELSE IF links = <<>> THEN Await(e.attrs["href"])
            ELSE Keep(Anchor(e, src, Head(links)), Tail(links))
        ELSE IF "href" \notin DOMAIN e.attrs THEN Raise("KeyError")
        ELSE Done(Anchor(e, src, "").nodes, links)
    ELSE IF e.tag = "img"
         THEN Keep(Img(e, src), links)
    ELSE IF e.tag = "div" THEN parse(e, src, links)
    ELSE Done(<<>>, links)

\* child i gave r: its nodes join node_list and the loop goes on, unless the
\* walk stopped in it
ParseRest(el, src, i, node_list, r) ==
    IF r.status # "done" THEN r
    ELSE ParseFrom(el, src, i + 1, AppendNodes(node_list, r.nodes), r.links)

\* the loop of parse from child i on, node_list being what it holds so far
ParseFrom(el, src, i, node_list, links) ==
    IF i > Len(el.contents) THEN Done(node_list, links)
    ELSE ParseRest(el, src, i, node_list, ParseElement(el.contents[i], src \o <<i>>, links))

\* async def parse(el)
parse(el, src, links) == ParseFrom(el, src, 1, <<>>, links)

(***************************************************************************)
(* Node.markdown() and Node.json().  A renderer returns                    *)
(*   exc : "" or the name of the exception it raised,                      *)
(*   out : what it returned,                                               *)
(*   node: the node afterwards (ImageNode and CodeNode assign to their own *)
(*         fields while rendering, also when a later step raises).         *)
(***************************************************************************)
Rendered(out, node) == [exc |-> "", out |-> out, node |-> node]
RenderRaised(exc, node) == [exc |-> exc, out |-> <<>>, node |-> node]

Whitespace == {" ", "\n", "\t"}

RECURSIVE LStrip(_)
LStrip(s) == IF s # <<>> /\ Head(s) \in Whitespace THEN LStrip(Tail(s)) ELSE s

RECURSIVE RStrip(_)
RStrip(s) ==
    IF s # <<>> /\ s[Len(s)] \in Whitespace THEN RStrip(SubSeq(s, 1, Len(s) - 1)) ELSE s

\* sep.join(parts)
RECURSIVE Join(_, _)
Join(parts, sep) ==
    IF parts = <<>> THEN <<>>
    ELSE IF Len(parts) = 1 THEN parts[1]
    ELSE parts[1] \o sep \o Join(Tail(parts), sep)

\* the list with the backslash escaped last, after the backslashes the
\* other replacements inserted
special_chars_backslash_last == <<"*", "$", "<", ">", "|", "~", "_", "\\">>
\* special_chars = ["\\", "*", "$", "<", ">", "|", "~", "_"]
special_chars == <<"\\", "*", "$", "<", ">", "|", "~", "_">>

RECURSIVE EscapeFrom(_, _)
\* for c in special_chars[i:]: txt = txt.replace(c, "\\" + c)
EscapeFrom(txt, i) ==
    IF i > Len(special_chars) THEN txt
    ELSE EscapeFrom(Replace(txt, special_chars[i], <<"\\", special_chars[i]>>), i + 1)

\* TextNode.markdown
TextMarkdown(text) ==
    LET t1 == Replace(text, "\t", <<" ">>)
        t2 == Replace(t1, " ", <<"&emsp;">>)
        t3 == Replace(t2, "nbsp", <<"&emsp;">>)
    IN EscapeFrom(t3, 1)

\* the prefix added without the scheme test
NormalizeUrlAlways(url) == <<"https:">> \o url
\* ImageNode: if URL(self.url).scheme == "": self.url = "https:" + self.url
NormalizeUrl(url) == IF Scheme(url) = "" THEN <<"https:">> \o url ELSE url

\* CodeNode: self.code = html.unescape(self.code); "<fence>" is the three-backquote fence
NormalizeCode(code) == Unescape(code)

\* the id as the f-strings of the card nodes print it
IdText(id) == <<ToString(id)>>

\* the markdown of a card: "[<label><id>](<link><id>)\n\n"
CardMarkdown(n) ==
    LET label == CASE n.type = "VideoCardNode" -> <<"[video av", "](https://www.bilibili.com/av">>
                   [] n.type = "ArticleCardNode" -> <<"[article cv", "](https://www.bilibili.com/read/cv">>
                   [] n.type = "BangumiCardNode" -> <<"[bangumi ep", "](https://www.bilibili.com/bangumi/play/ep">>
                   [] n.type = "MusicCardNode" -> <<"[music au", "](https://www.bilibili.com/audio/au">>
                   [] n.type = "ShopCardNode" -> <<"[shop ", "](https://show.bilibili.com/platform/detail.html?id=">>
                   [] n.type = "ComicCardNode" -> <<"[comic mc", "](https://manga.bilibili.com/m/detail/mc">>
                   [] n.type = "LiveCardNode" -> <<"[live ", "](https://live.bilibili.com/">>
    IN <<label[1]>> \o IdText(n.id) \o <<label[2]>> \o IdText(n.id) \o <<")", "\n", "\n">>

\* the json of a card: the type and the id under the name of its field
CardJson(n) ==
    CASE n.type = "VideoCardNode" -> [type |-> n.type, aid |-> n.id]
      [] n.type = "ArticleCardNode" -> [type |-> n.type, cvid |-> n.id]
      [] n.type = "BangumiCardNode" -> [type |-> n.type, epid |-> n.id]
      [] n.type = "MusicCardNode" -> [type |-> n.type, auid |-> n.id]
      [] n.type = "ShopCardNode" -> [type |-> n.type, pwid |-> n.id]
      [] n.type = "ComicCardNode" -> [type |-> n.type, mcid |-> n.id]
      [] n.type = "LiveCardNode" -> [type |-> n.type, room_id |-> n.id]

\* what a container makes of "".join([node.markdown() for node in self.children])
ContainerMarkdown(n, outs) ==
    LET text == Flatten(outs)
    IN CASE n.type = "ParagraphNode" -> text \o <<"\n", "\n">>
         [] n.type = "HeadingNode" ->
              IF text = <<>> THEN <<>> ELSE <<"## ">> \o text \o <<"\n", "\n">>
         [] n.type = "BlockquoteNode" ->
              LET lines == Split(text, "\n")
              IN Join([i \in 1..Len(lines) |-> <<"> ">> \o lines[i]], <<"\n">>)
                 \o <<"\n", "\n">>
         [] n.type = "ItalicNode" ->
              IF text = <<>> THEN <<>> ELSE <<" *">> \o text \o <<"* ">>
         [] n.type = "BoldNode" ->
              IF text = <<>> THEN <<>> ELSE <<" **">> \o RStrip(LStrip(text)) \o <<"** ">>
         [] n.type = "DelNode" ->
              IF text = <<>> THEN <<>> ELSE <<" ~~">> \o text \o <<"~~ ">>
         [] n.type = "UnderlineNode" ->
              IF text = <<>> THEN <<>> ELSE <<" $\\underline{">> \o text \o <<"}$ ">>
         [] n.type = "UlNode" ->
              Join([i \in 1..Len(outs) |-> <<"- ">> \o outs[i]], <<"\n">>)
         [] n.type = "OlNode" ->
              Join([i \in 1..Len(outs) |-> <<ToString(i), ". ">> \o outs[i]], <<"\n">>)
         [] OTHER -> text

\* what a container's json adds to type and children
ContainerJson(n, outs) ==
    CASE n.type = "ColorNode" -> [type |-> n.type, color |-> n.color, children |-> outs]
      [] n.type = "FontSizeNode" -> [type |-> n.type, size |-> n.size, children |-> outs]
      [] OTHER -> [type |-> n.type, children |-> outs]

RECURSIVE NodeMarkdown(_)
RECURSIVE MarkdownList(_)
RECURSIVE NodeJson(_)
RECURSIVE JsonList(_)

\* [node.markdown() for node in children]: stops at the first child that raises
MarkdownList(kids) ==
    IF kids = <<>> THEN [exc |-> "", outs |-> <<>>, nodes |-> <<>>]
    ELSE LET h == NodeMarkdown(Head(kids))
         IN IF h.exc # ""
            THEN [exc |-> h.exc, outs |-> <<>>, nodes |-> <<h.node>> \o Tail(kids)]
            ELSE LET t == MarkdownList(Tail(kids))
                 IN [exc |-> t.exc, outs |-> <<h.out>> \o t.outs,
                     nodes |-> <<h.node>> \o t.nodes]

\* node.markdown()
NodeMarkdown(n) ==
    IF IsContainer(n) THEN
        LET r == MarkdownList(n.children)
            m == [n EXCEPT !.children = r.nodes]
        IN IF r.exc # "" THEN RenderRaised(r.exc, m)
           ELSE Rendered(ContainerMarkdown(n, r.outs), m)
    ELSE CASE n.type = "TextNode" -> Rendered(TextMarkdown(n.text), n)
           [] n.type = "ImageNode" ->
                IF n.url = None THEN RenderRaised("TypeError", n)
                ELSE LET m == [n EXCEPT !.url = NormalizeUrl(n.url)]
                     IN IF n.alt = TagObj THEN RenderRaised("TypeError", m)
                        ELSE Rendered(<<"![">> \o Replace(n.alt, "[", <<"\\", "[">>)
                                      \o <<"](">> \o m.url \o <<")", "\n", "\n">>, m)
           [] n.type = "LatexNode" ->
                IF \E i \in 1..Len(n.code) : n.code[i] = "\n"
                THEN Rendered(<<"$$", "\n">> \o n.code \o <<"\n", "$$">>, n)
                ELSE Rendered(<<"$">> \o n.code \o <<"$">>, n)
           [] n.type = "CodeNode" ->
                LET m == [n EXCEPT !.code = NormalizeCode(n.code)]
                IN Rendered(<<"<fence>">> \o m.lang \o <<"\n">> \o m.code
                            \o <<"\n", "<fence>", "\n", "\n">>, m)
           [] n.type = "AnchorNode" ->
                IF n.text = TagObj THEN RenderRaised("TypeError", n)
                ELSE Rendered(<<"[">> \o Replace(n.text, "[", <<"\\", "[">>)
                              \o <<"](">> \o n.url \o <<")">>, n)
           [] n.type = "SeparatorNode" -> Rendered(<<"\n", "------", "\n">>, n)
           [] OTHER -> Rendered(CardMarkdown(n), n)

\* list(map(lambda x: x.json(), children)): stops at the first child that raises
JsonList(kids) ==
    IF kids = <<>> THEN [exc |-> "", outs |-> <<>>, nodes |-> <<>>]
    ELSE LET h == NodeJson(Head(kids))
         IN IF h.exc # ""
            THEN [exc |-> h.exc, outs |-> <<>>, nodes |-> <<h.node>> \o Tail(kids)]
            ELSE LET t == JsonList(Tail(kids))
                 IN [exc |-> t.exc, outs |-> <<h.out>> \o t.outs,
                     nodes |-> <<h.node>> \o t.nodes]

\* node.json()
NodeJson(n) ==
    IF IsContainer(n) THEN
        LET r == JsonList(n.children)
            m == [n EXCEPT !.children = r.nodes]
        IN IF r.exc # "" THEN RenderRaised(r.exc, m)
           ELSE Rendered(ContainerJson(n, r.outs), m)
    ELSE CASE n.type = "TextNode" -> Rendered([type |-> n.type, text |-> n.text], n)
           [] n.type = "ImageNode" ->
                IF n.url = None THEN RenderRaised("TypeError", n)
                ELSE LET m == [n EXCEPT !.url = NormalizeUrl(n.url)]
                     IN Rendered([type |-> n.type, url |-> m.url, alt |-> m.alt], m)
           [] n.type = "LatexNode" -> Rendered([type |-> n.type, code |-> n.code], n)
           [] n.type = "CodeNode" ->
                LET m == [n EXCEPT !.code = NormalizeCode(n.code)]
                IN Rendered([type |-> n.type, code |-> m.code, lang |-> m.lang], m)
           [] n.type = "AnchorNode" ->
                Rendered([type |-> n.type, url |-> n.url, text |-> n.text], n)
           [] n.type = "SeparatorNode" -> Rendered([type |-> n.type], n)
           [] OTHER -> Rendered(CardJson(n), n)

(***************************************************************************)
(* Inputs: the elements the platform's editor emits, and the contents      *)
(* (readInfo.content) built from them.                                     *)
(***************************************************************************)
PlainText == Txt(<<"a", "*", " ", "b">>)
Para == El("p", [style |-> <<"text-align: center", ";">>], <<Txt(<<"x">>)>>)
LinkOne == El("a", [href |-> <<"https:", "//b23.tv/", "7">>], <<>>)
LinkTwo == El("a", [href |-> <<"https:", "//b23.tv/", "22">>], <<>>)
AnchorText == El("a", [href |-> <<"https:", "//x.org">>], <<Txt(<<"t">>)>>)
AnchorBold ==
    El("a", [href |-> <<"https:", "//x.org">>], <<El("strong", NoAttrs, <<Txt(<<"t">>)>>)>>)
SpanKnownColor ==
    El("span", [class |-> << <<"color", "-", "blue-01">> >>], <<Txt(<<"c">>)>>)
SpanUnknownColor ==
    El("span", [class |-> << <<"color", "-", "unknown-name">> >>], <<Txt(<<"c">>)>>)
SpanStyledUnknownColor ==
    El("span", [style |-> <<"font-weight: bold">>,
                class |-> << <<"color", "-", "unknown-name">> >>], <<Txt(<<"c">>)>>)
SpanDel ==
    El("span", [style |-> <<"text-decoration: line-through", ";">>], <<Txt(<<"d">>)>>)
FigCode ==
    El("figure", [class |-> << <<"code-box">> >>],
       <<El("pre", ("data-lang" :> <<"Python", "@", "x">>)
                   @@ ("codecontent" :> <<"%26", "amp;", "lt;", "b">>), <<>>)>>)
FigSeamless ==
    El("figure", [class |-> << <<"img-box">> >>],
       <<El("img", ("class" :> << <<"seamless">> >>)
                   @@ ("data-src" :> <<"//", "i0.hdslb.com/x.png">>), <<>>),
         El("figcaption", NoAttrs, <<Txt(<<"cap">>)>>)>>)
FigVideo ==
    El("figure", [class |-> << <<"img-box">> >>],
       <<El("img", [class |-> << <<"video-card">> >>, aid |-> <<"100", ",", "200">>], <<>>)>>)
ImgAbsolute ==
    El("img", ("class" :> << <<"pic">> >>)
              @@ ("data-src" :> <<"https:", "//", "i0.hdslb.com/y.png">>), <<>>)
ImgNoSource == El("img", [class |-> << <<"pic">> >>], <<>>)
ImgNoClass == El("img", ("data-src" :> <<"//", "i0.hdslb.com/z.png">>), <<>>)
Division == El("div", NoAttrs, <<LinkOne, PlainText>>)
Emphasis == El("em", NoAttrs, <<SpanUnknownColor>>)

Contents ==
    { <<Para, LinkOne, PlainText>>,
      <<Division, LinkTwo, AnchorText>>,
      <<SpanKnownColor, SpanUnknownColor, LinkOne>>,
      <<SpanStyledUnknownColor, Emphasis>>,
      <<FigCode, AnchorBold, FigSeamless>>,
      <<ImgNoSource, PlainText>>,
      <<FigSeamless, ImgAbsolute, SpanDel>>,
      <<FigVideo, ImgNoClass>> }

\* BeautifulSoup(f"<div>{content}</div>", "lxml").find("div")
Document(content) == El("div", NoAttrs, content)

(***************************************************************************)
(* The payload get_initial_state returns: [0] is a mapping with readInfo.  *)
(***************************************************************************)
ReadInfo(content) ==
    [content |-> content, title |-> <<"T">>, dyn_id_str |-> <<"900">>,
     category |-> [id |-> 41]]

\* d without key k (del d[k])
Without(d, k) == [x \in DOMAIN d \ {k} |-> d[x]]

Payloads ==
    {[readInfo |-> ReadInfo(c)] : c \in Contents}
    \cup {[readInfo |-> Without(ReadInfo(<<PlainText>>), "dyn_id_str")],
          [readInfo |-> Without(ReadInfo(<<PlainText>>), "category")],
          [readInfo |-> [ReadInfo(<<PlainText>>) EXCEPT !.category = [id |-> 3]]]}

(***************************************************************************)
(* The state                                                               *)
(***************************************************************************)
\* the Article instances of the process
Articles == {"A"}
Cvid == [a \in Articles |-> 1]

\* coroutine calls started in a run
MaxCalls == 2

\* the async methods of Article that go through get_all
Ops == {"fetch_content", "get_all"}

\* what parse_link can answer: a ResourceType, or an exception
LinkOutcomes == {"VIDEO", "ARTICLE", "FAILED", "raise"}

\* Python's None where a mapping is expected
NoneObj == [isNone |-> TRUE]
EmptyMap == [x \in {} |-> 0]

\* d[k] = v
Put(d, k, v) == [x \in DOMAIN d \cup {k} |-> IF x = k THEN v ELSE d[x]]

VARIABLES
    server,        \* what get_initial_state returns for the cvid's page
    get_all_data,  \* Article.__get_all_data, per instance
    meta,          \* Article.__meta
    children,      \* Article.__children
    has_parsed,    \* Article.__has_parsed
    cache_pool,    \* utils.cache_pool: the process-wide registry
    writes,        \* how often each registry entry of a cvid has been assigned
    calls,         \* the coroutine calls that are suspended, oldest first
    started,       \* the number of coroutine calls started so far
    last,          \* the coroutine call that returned or raised last
    rendered,      \* what the last markdown()/json() call returned or raised
    first_json     \* what the first json() call on the current node tree returned

vars == <<server, get_all_data, meta, children, has_parsed, cache_pool, writes,
          calls, started, last, rendered, first_json>>

NoCall == [op |-> "none"]
NoJson == [type |-> "<no result>"]
NotRendered == [op |-> "none"]

Init ==
    /\ server \in Payloads
    /\ get_all_data = [a \in Articles |-> NoneObj]
    /\ meta = [a \in Articles |-> NoneObj]
    /\ children = [a \in Articles |-> <<>>]
    /\ has_parsed = [a \in Articles |-> FALSE]
    /\ cache_pool = [article2dynamic |-> EmptyMap, dynamic2article |-> EmptyMap,
                     dynamic_is_article |-> EmptyMap, dynamic_is_opus |-> EmptyMap,
                     article_is_note |-> EmptyMap]
    /\ writes = [article2dynamic |-> [c \in {Cvid[a] : a \in Articles} |-> 0],
                 article_is_note |-> [c \in {Cvid[a] : a \in Articles} |-> 0]]
    /\ calls = <<>>
    /\ started = 0
    /\ last = NoCall
    /\ rendered = [a \in Articles |-> NotRendered]
    /\ first_json = [a \in Articles |-> NotRendered]

(***************************************************************************)
(* get_all                                                                 *)
(***************************************************************************)
\* `if not self.__get_all_data`: None and the empty mapping are falsy
Cached(a) == get_all_data[a] # NoneObj /\ DOMAIN get_all_data[a] # {}

\* the statements of get_all after the await: the payload is stored, then the
\* registry entries are assigned one after the other; a missing key raises
\* KeyError and leaves what was assigned before it
GetAllStore(a, payload) ==
    LET info == payload.readInfo
        cv == Cvid[a]
        dyn == info["dyn_id_str"]
        pool1 == [cache_pool EXCEPT
                    !.article2dynamic = Put(@, cv, dyn),
                    !.dynamic2article = Put(@, dyn, cv),
                    !.dynamic_is_article = Put(@, dyn, TRUE),
                    !.dynamic_is_opus = Put(@, dyn, TRUE)]
        writes1 == [writes EXCEPT !.article2dynamic[cv] = @ + 1]
    IN IF "dyn_id_str" \notin DOMAIN info
       THEN [exc |-> "KeyError", pool |-> cache_pool, writes |-> writes]
       ELSE IF "category" \notin DOMAIN info
       THEN [exc |-> "KeyError", pool |-> pool1, writes |-> writes1]
       ELSE [exc |-> "",
             pool |-> [pool1 EXCEPT
                         !.article_is_note = Put(@, cv, info["category"].id \in {41, 42})],
             writes |-> [writes1 EXCEPT !.article_is_note[cv] = @ + 1]]

\* the await of get_initial_state raised: the exception leaves get_all and the
\* method that called it; nothing catches it and nothing fetches again
FetchFailed(c) == [c EXCEPT !.pc = "done", !.exc = "NetworkException"]

(***************************************************************************)
(* Bookkeeping of the coroutine calls.  A call record:                     *)
(*   op, art : the method and the instance                                 *)
(*   pc      : "fetch" (awaiting get_initial_state), "link" (awaiting       *)
(*             parse_link), "done"                                         *)
(*   links   : the outcomes parse_link has delivered to its walk           *)
(*   exc     : "" or the exception it raised                               *)
(*   fetches : the remote fetches it has issued                            *)
(*   walks   : the runs of parse(document.find("div")) it has started      *)
(*   alone   : no other call was suspended while it ran                    *)
(*   warm    : has_parsed was already set when it was started              *)
(***************************************************************************)
NewCall(op, a) ==
    [op |-> op, art |-> a, pc |-> "fetch", links |-> <<>>, exc |-> "",
     fetches |-> 0, walks |-> 0, alone |-> calls = <<>>, warm |-> has_parsed[a]]

\* a call starts while the calls of `running` are suspended: none of them
\* runs alone any more
Joined(running) == [k \in 1..Len(running) |-> [running[k] EXCEPT !.alone = FALSE]]

\* call i of `running` (i = Len(running) + 1: a new call) has come to state c:
\* it stays suspended, or it has ended and is the last call that ended
Settle(running, i, c) ==
    IF c.pc = "done"
    THEN /\ calls' = SubSeq(running, 1, i - 1) \o SubSeq(running, i + 1, Len(running))
         /\ last' = c
    ELSE /\ calls' = SubSeq(running, 1, i - 1) \o <<c>>
                     \o SubSeq(running, i + 1, Len(running))
         /\ UNCHANGED last

(***************************************************************************)
(* fetch_content after `resp = await self.get_all()`                       *)
(***************************************************************************)
\* the flag set before the walk instead of after it
ParsedFlagEarly(old, status) == TRUE
\* self.__has_parsed = True is the last statement, after the walk returned
ParsedFlag(old, status) == IF status = "done" THEN TRUE ELSE old

\* the walk of resp's content with the link outcomes `links`, and what it
\* leaves in the call record c and in the instance
Walked(c, a, links, r) ==
    [call |-> [c EXCEPT !.pc = IF r.status = "await" THEN "link" ELSE "done",
                        !.exc = r.exc,
                        !.links = links],
     children |-> IF r.status = "done" THEN r.nodes ELSE children[a],
     has_parsed |-> ParsedFlag(has_parsed[a], r.status),
     first_json |-> IF r.status = "done" THEN NotRendered ELSE first_json[a]]
Walk(c, a, resp, links) ==
    Walked(c, a, links, parse(Document(resp.readInfo["content"]), <<>>, links))

\* what a walk w leaves: the call suspended or ended, and, when it ended
\* well, lines 558-559
Install(running, i, a, w) ==
    /\ Settle(running, i, w.call)
    /\ children' = [children EXCEPT ![a] = w.children]
    /\ has_parsed' = [has_parsed EXCEPT ![a] = w.has_parsed]
    /\ first_json' = [first_json EXCEPT ![a] = w.first_json]

\* lines 288 and 556-557, then the walk up to its first suspension
FetchContentBody(running, i, c, a, resp) ==
    /\ meta' = [meta EXCEPT ![a] = Without(resp.readInfo, "content")]
    /\ Install(running, i, a, Walk([c EXCEPT !.walks = @ + 1], a, resp, <<>>))

(***************************************************************************)
(* Actions                                                                 *)
(***************************************************************************)
\* turn_to_dynamic (turn_to_opus has the same statements) and is_note: the
\* methods that read the registry, and the table each reads
LookupOps == {"turn_to_dynamic", "is_note"}
Table(op) == IF op = "is_note" THEN "article_is_note" ELSE "article2dynamic"

\* `cache_pool.<table>.get(self.get_cvid()) is None` is false
RegistryHas(pool, op, a) == Cvid[a] \in DOMAIN pool[Table(op)]

\* `cache_pool.<table>[self.get_cvid()]` after get_all returned
Lookup(pool, op, a) == IF RegistryHas(pool, op, a) THEN "" ELSE "KeyError"

\* a caller starts op on instance a; the coroutine runs to its first
\* suspension (the remote fetch, or a link resolution when the payload is
\* cached) or to its end
Call(op, a) ==
    /\ started < MaxCalls
    /\ started' = started + 1
    /\ LET c == NewCall(op, a)
           i == Len(calls) + 1
       IN IF op \in LookupOps /\ RegistryHas(cache_pool, op, a)
          THEN /\ Settle(Joined(calls), i, [c EXCEPT !.pc = "done"])
               /\ UNCHANGED <<meta, children, has_parsed, first_json>>
          ELSE IF ~Cached(a)
          THEN /\ Settle(Joined(calls), i, [c EXCEPT !.fetches = 1])
               /\ UNCHANGED <<meta, children, has_parsed, first_json>>
          ELSE IF op = "get_all"
          THEN /\ Settle(Joined(calls), i, [c EXCEPT !.pc = "done"])
               /\ UNCHANGED <<meta, children, has_parsed, first_json>>
          ELSE IF op \in LookupOps
          THEN /\ Settle(Joined(calls), i,
                         [c EXCEPT !.pc = "done", !.exc = Lookup(cache_pool, op, a)])
               /\ UNCHANGED <<meta, children, has_parsed, first_json>>
          ELSE FetchContentBody(Joined(calls), i, c, a, get_all_data[a])
    /\ UNCHANGED <<server, get_all_data, cache_pool, writes, rendered>>

\* get_initial_state returns the page data, or raises
FetchReturn(i, ok) ==
    /\ i \in 1..Len(calls)
    /\ calls[i].pc = "fetch"
    /\ LET c == calls[i]
           a == c.art
           st == GetAllStore(a, server)
       IN IF ~ok
          THEN /\ Settle(calls, i, FetchFailed(c))
               /\ UNCHANGED <<get_all_data, cache_pool, writes, meta, children, has_parsed,
                              first_json>>
          ELSE /\ get_all_data' = [get_all_data EXCEPT ![a] = server]
               /\ cache_pool' = st.pool
               /\ writes' = st.writes
               /\ IF st.exc # ""
                  THEN /\ Settle(calls, i, [c EXCEPT !.pc = "done", !.exc = st.exc])
                       /\ UNCHANGED <<meta, children, has_parsed, first_json>>
                  ELSE IF c.op = "get_all"
                  THEN /\ Settle(calls, i, [c EXCEPT !.pc = "done"])
                       /\ UNCHANGED <<meta, children, has_parsed, first_json>>
                  ELSE IF c.op \in LookupOps
                  THEN /\ Settle(calls, i, [c EXCEPT !.pc = "done",
                                                     !.exc = Lookup(st.pool, c.op, a)])
                       /\ UNCHANGED <<meta, children, has_parsed, first_json>>
                  ELSE FetchContentBody(calls, i, c, a, server)
    /\ UNCHANGED <<server, started, rendered>>

\* parse_link answers the walk of call i, which goes on to its next suspension
\* or to its end.  The walk reads the tree built from resp when it started;
\* the page does not change during a run, so that is server's content.
LinkReturn(i, outcome) ==
    /\ i \in 1..Len(calls)
    /\ calls[i].pc = "link"
    /\ Install(calls, i, calls[i].art,
               Walk(calls[i], calls[i].art, server, Append(calls[i].links, outcome)))
    /\ UNCHANGED <<server, get_all_data, meta, cache_pool, writes, started, rendered>>

(***************************************************************************)
(* Article.markdown() and Article.json()                                   *)
(***************************************************************************)
\* yaml.safe_dump(meta, allow_unicode=True): one "key: value" line per key,
\* keys sorted; a nested mapping goes on indented lines of its own
YamlKeys == <<"category", "content", "dyn_id_str", "title">>

YamlValue(k, v) ==
    CASE k = "category" -> <<"\n", "  id: ", ToString(v.id)>>
      [] k = "content" -> <<"<content>">>
      [] OTHER -> v

RECURSIVE YamlFrom(_, _)
YamlFrom(m, i) ==
    IF i > Len(YamlKeys) THEN <<>>
    ELSE (IF YamlKeys[i] \in DOMAIN m
          THEN <<YamlKeys[i], ": ">> \o YamlValue(YamlKeys[i], m[YamlKeys[i]]) \o <<"\n">>
          ELSE <<>>)
         \o YamlFrom(m, i + 1)

YamlDump(m) == YamlFrom(m, 1)

\* f"---\n{meta_yaml}\n---\n\n{content}"
FrontMatter(m) == <<"---", "\n">> \o YamlDump(m) \o <<"\n", "---", "\n", "\n">>

RECURSIVE ArticleMarkdownLoopNoTry(_)
\* the loop without its try: the first child that raises ends it
ArticleMarkdownLoopNoTry(kids) ==
    IF kids = <<>> THEN [exc |-> "", out |-> <<>>, nodes |-> <<>>]
    ELSE LET h == NodeMarkdown(Head(kids))
         IN IF h.exc # ""
            THEN [exc |-> h.exc, out |-> <<>>, nodes |-> <<h.node>> \o Tail(kids)]
            ELSE LET t == ArticleMarkdownLoopNoTry(Tail(kids))
                 IN [exc |-> t.exc, out |-> h.out \o t.out, nodes |-> <<h.node>> \o t.nodes]

RECURSIVE ArticleMarkdownLoop(_)
\* for node in self.__children: try: markdown_text = node.markdown()
\*                              except: continue
\*                              else: content += markdown_text
ArticleMarkdownLoop(kids) ==
    IF kids = <<>> THEN [exc |-> "", out |-> <<>>, nodes |-> <<>>]
    ELSE LET h == NodeMarkdown(Head(kids))
             t == ArticleMarkdownLoop(Tail(kids))
         IN [exc |-> t.exc,
             out |-> (IF h.exc = "" THEN h.out ELSE <<>>) \o t.out,
             nodes |-> <<h.node>> \o t.nodes]

\* `if not self.__has_parsed: raise ApiException(...)`
IsParsed(a) == has_parsed[a]

\* Article.markdown()
Markdown(a) ==
    /\ IF ~IsParsed(a)
       THEN /\ rendered' = [rendered EXCEPT ![a] =
                              [op |-> "markdown", exc |-> "ApiException"]]
            /\ UNCHANGED children
       ELSE LET r == ArticleMarkdownLoop(children[a])
            IN /\ children' = [children EXCEPT ![a] = r.nodes]
               /\ rendered' = [rendered EXCEPT ![a] =
                                 IF r.exc # "" THEN [op |-> "markdown", exc |-> r.exc]
                                 ELSE [op |-> "markdown", exc |-> "",
                                       text |-> FrontMatter(meta[a]) \o r.out]]
    /\ UNCHANGED <<server, get_all_data, meta, has_parsed, cache_pool, writes, calls,
                   started, last, first_json>>

\* Article.json()
Json(a) ==
    /\ IF ~IsParsed(a)
       THEN /\ rendered' = [rendered EXCEPT ![a] = [op |-> "json", exc |-> "ApiException"]]
            /\ UNCHANGED <<children, first_json>>
       ELSE LET r == JsonList(children[a])
                result == IF r.exc # "" THEN [op |-> "json", exc |-> r.exc]
                          ELSE [op |-> "json", exc |-> "",
                                out |-> [type |-> "Article", meta |-> meta[a],
                                         children |-> r.outs]]
            IN /\ children' = [children EXCEPT ![a] = r.nodes]
               /\ rendered' = [rendered EXCEPT ![a] = result]
               /\ first_json' = [first_json EXCEPT ![a] =
                                   IF @ = NotRendered THEN result ELSE @]
    /\ UNCHANGED <<server, get_all_data, meta, has_parsed, cache_pool, writes, calls,
                   started, last>>

Next ==
    \/ \E op \in Ops, a \in Articles : Call(op, a)
    \/ \E i \in 1..MaxCalls, ok \in BOOLEAN : FetchReturn(i, ok)
    \/ \E i \in 1..MaxCalls, outcome \in LinkOutcomes : LinkReturn(i, outcome)
    \/ \E a \in Articles : Markdown(a)
    \/ \E a \in Articles : Json(a)

Spec == Init /\ [][Next]_vars

(***************************************************************************)
(* Helpers of the properties                                               *)
(***************************************************************************)
\* the suspended calls on instance a that are at `pc`
Suspended(a, pc) == {i \in 1..Len(calls) : calls[i].art = a /\ calls[i].pc = pc}

\* p comes no later than q in document order: p is an ancestor of q (or q
\* itself), or the paths part at a child index where p's is the smaller
PathLeq(p, q) ==
    \/ Len(p) <= Len(q) /\ SubSeq(q, 1, Len(p)) = p
    \/ \E k \in 1..Len(p) :
          /\ k <= Len(q)
          /\ SubSeq(p, 1, k - 1) = SubSeq(q, 1, k - 1)
          /\ p[k] < q[k]

RECURSIVE InDocumentOrder(_)
\* the nodes of `list`, and of every container below it, stand in the order
\* of the elements they came from
InDocumentOrder(list) ==
    /\ \A i \in 1..Len(list) - 1 : PathLeq(list[i].src, list[i + 1].src)
    /\ \A i \in 1..Len(list) : IsContainer(list[i]) => InDocumentOrder(list[i].children)

RECURSIVE AllNodes(_)
\* the nodes of `list` and all the nodes below them
AllNodes(list) ==
    IF list = <<>> THEN <<>>
    ELSE <<Head(list)>>
         \o (IF IsContainer(Head(list)) THEN AllNodes(Head(list).children) ELSE <<>>)
         \o AllNodes(Tail(list))

LinkCards == {"VideoCardNode", "MusicCardNode", "LiveCardNode", "ArticleCardNode"}

(***************************************************************************)
(* C1.  While no fetch_content() has completed on an instance, has_parsed  *)
(* is false and markdown() and json() both fail with ApiException: the     *)
(* flag only ever turns true in the step in which a fetch_content() call   *)
(* on that instance ends without an exception, and as long as it is false  *)
(* the last render of the instance, if any, raised ApiException.           *)
(***************************************************************************)
C1_UnparsedRendersFail ==
    [][\A a \in Articles :
          /\ has_parsed'[a] /\ ~has_parsed[a] =>
                /\ last' # NoCall
                /\ last' # last \/ Len(calls') < Len(calls)
                /\ last'.op = "fetch_content" /\ last'.art = a
                /\ last'.pc = "done" /\ last'.exc = ""
          /\ ~has_parsed'[a] =>
                \/ rendered'[a] = NotRendered
                \/ rendered'[a].exc = "ApiException"]_vars

\* json() was refused on an instance whose fetch_content() has started its
\* walk and is suspended in it
C1_Witness ==
    \E a \in Articles :
        /\ ~has_parsed[a]
        /\ Suspended(a, "link") # {}
        /\ rendered[a] = [op |-> "json", exc |-> "ApiException"]

(***************************************************************************)
(* C2.  Concurrent fetch_content() calls on one instance are single-       *)
(* flight: at most one remote fetch of the instance is in flight and at    *)
(* most one walk of its content is under way at any time.                  *)
(***************************************************************************)
C2_SingleFlight ==
    \A a \in Articles :
        /\ Cardinality(Suspended(a, "fetch")) <= 1
        /\ Cardinality(Suspended(a, "link")) <= 1

(***************************************************************************)
(* C3.  fetch_content() is memoized: a call made when the instance was     *)
(* already parsed, with no other call running beside it, issues no remote  *)
(* fetch and runs no walk.                                                 *)
(***************************************************************************)
C3_RepeatIsNoOp ==
    last # NoCall /\ last.op = "fetch_content" /\ last.warm /\ last.alone
        => last.fetches = 0 /\ last.walks = 0

(***************************************************************************)
(* C4.  Whatever outcomes the link resolutions have and however the calls  *)
(* interleave, the top-level list and every container's child list hold    *)
(* their nodes in the document order of the elements they came from.       *)
(***************************************************************************)
C4_DocumentOrder ==
    \A a \in Articles : InDocumentOrder(children[a])

\* a card that a resolved link produced stands between the node of an
\* earlier sibling and the node of a later one
C4_Witness ==
    \E a \in Articles :
        /\ has_parsed[a]
        /\ \E i \in 2..Len(children[a]) - 1 :
              /\ children[a][i].type \in LinkCards
              /\ children[a][i - 1].src # children[a][i].src
              /\ children[a][i + 1].src # children[a][i].src

(***************************************************************************)
(* C5.  When the remote fetch raises, the exception reaches the caller of  *)
(* the call that awaited it, that call has fetched once and walked         *)
(* nothing, and the instance is left unparsed, without payload, without    *)
(* meta or children and without registry entry.                            *)
(***************************************************************************)
C5_FetchErrorLeavesUnparsed ==
    [][\A i \in 1..MaxCalls :
          FetchReturn(i, FALSE) =>
             /\ last' # NoCall
             /\ Len(calls') = Len(calls) - 1
             /\ last'.op = calls[i].op /\ last'.pc = "done"
             /\ last'.exc = "NetworkException"
             /\ last'.fetches = 1 /\ last'.walks = 0
             /\ ~has_parsed'[calls[i].art]
             /\ get_all_data'[calls[i].art] = NoneObj
             /\ meta'[calls[i].art] = NoneObj /\ children'[calls[i].art] = <<>>
             /\ Cvid[calls[i].art] \notin DOMAIN cache_pool'.article2dynamic
             /\ Cvid[calls[i].art] \notin DOMAIN cache_pool'.article_is_note]_vars

(***************************************************************************)
(* C6.  A link resolution that fails, by raising or by not resolving, only *)
(* drops its <a> element: no call ends with the exception of the link      *)
(* resolution.                                                             *)
(***************************************************************************)
C6_LinkFailureDropsElement ==
    last # NoCall => last.exc # "LinkError"

(***************************************************************************)
(* C7.  Helpers: the elements the walk dispatches on, and the spans whose  *)
(* class names a color the table does not hold.                            *)
(***************************************************************************)
\* the walk goes into the children of e (when e's own branch does not raise)
Descends(e) ==
    /\ ~IsText(e)
    /\ \/ e.tag \in {"p", "div"} \cup DOMAIN ContainerTags
       \/ /\ e.tag = "span"
          /\ IF "style" \in DOMAIN e.attrs
             THEN \/ Contains(e.attrs["style"], <<"text-decoration: line-through">>)
                  \/ TextOf(e) # <<>>
             ELSE /\ "class" \in DOMAIN e.attrs
                  /\ \/ Contains(e.attrs["class"][1], <<"font-size">>)
                     \/ Contains(e.attrs["class"][1], <<"color">>)
                     \/ TextOf(e) # <<>>

RECURSIVE Dispatched(_)
\* the elements a walk of el that nothing stops takes through the if-chain
Dispatched(el) ==
    Flatten([i \in 1..Len(el.contents) |->
               <<el.contents[i]>>
               \o (IF Descends(el.contents[i]) THEN Dispatched(el.contents[i]) ELSE <<>>)])

\* cn is color-<name> and ARTICLE_COLOR_MAP has no <name>
UnknownColorClass(cn) ==
    /\ AfterFirst(cn, <<"color", "-">>) # 0
    /\ ~KnownColor(SubSeq(cn, AfterFirst(cn, <<"color", "-">>), Len(cn)))

\* a <span> with such a class
UnknownColorSpan(e) ==
    /\ ~IsText(e) /\ e.tag = "span"
    /\ "class" \in DOMAIN e.attrs
    /\ UnknownColorClass(e.attrs["class"][1])

\* some element of `elements` is a span that reaches the color lookup with
\* a name the table lacks: no style attribute, no font-size in its class
LooksUpUnknownColor(elements) ==
    \E i \in 1..Len(elements) :
        /\ UnknownColorSpan(elements[i])
        /\ "style" \notin DOMAIN elements[i].attrs
        /\ ~Contains(elements[i].attrs["class"][1], <<"font-size">>)

\* no fetch_content() on instance a has walked to a good end
NeverParses(a) ==
    /\ ~has_parsed[a]
    /\ children[a] = <<>>
    /\ last # NoCall /\ last.art = a /\ last.op = "fetch_content" /\ last.walks > 0
          => last.exc # ""

(***************************************************************************)
(* C7 as stated.  A page with a <span> whose class is color-<name>, <name> *)
(* absent from ARTICLE_COLOR_MAP, makes every fetch_content() fail: the    *)
(* instance is never parsed.                                               *)
(***************************************************************************)
C7_AnyUnknownColorSpanFails ==
    \A a \in Articles :
        (\E i \in 1..Len(Descendants(Document(server.readInfo["content"]))) :
            UnknownColorSpan(Descendants(Document(server.readInfo["content"]))[i]))
        => NeverParses(a)

(***************************************************************************)
(* C7 amended.  A <span> that the walk dispatches on, that has no style    *)
(* attribute and whose first class is color-<name> without font-size in    *)
(* it, <name> absent from ARTICLE_COLOR_MAP, makes every fetch_content()   *)
(* fail: no Color node with a default color is produced, the walk ends     *)
(* with an exception and the instance stays unparsed.                      *)
(***************************************************************************)
C7_DispatchedUnknownColorFails ==
    \A a \in Articles :
        LooksUpUnknownColor(Dispatched(Document(server.readInfo["content"])))
        => NeverParses(a)

\* a fetch_content() met the span and ended with KeyError before it asked
\* for the link that follows the span
C7_Witness ==
    \E a \in Articles :
        /\ LooksUpUnknownColor(Dispatched(Document(server.readInfo["content"])))
        /\ last # NoCall /\ last.art = a /\ last.op = "fetch_content"
        /\ last.walks = 1 /\ last.exc = "KeyError" /\ last.links = <<>>
        /\ ~has_parsed[a]

(***************************************************************************)
(* C8.  On a parsed instance markdown() always returns, and what it        *)
(* returns is the front matter followed by the markdown of the top-level   *)
(* children that did not raise, in their order.                            *)
(***************************************************************************)
\* the markdown of the children of `kids` that render, concatenated
RenderableMarkdown(kids) ==
    Flatten([i \in 1..Len(kids) |->
               IF NodeMarkdown(kids[i]).exc = "" THEN NodeMarkdown(kids[i]).out ELSE <<>>])

C8_MarkdownSkipsFailedChildren ==
    [][\A a \in Articles :
          Markdown(a) /\ has_parsed[a] =>
             rendered'[a] = [op |-> "markdown", exc |-> "",
                             text |-> FrontMatter(meta[a])
                                      \o RenderableMarkdown(children[a])]]_vars

\* markdown() returned on an instance with a top-level child that raises and
\* a later one that renders
C8_Witness ==
    \E a \in Articles :
        /\ has_parsed[a]
        /\ rendered[a] # NotRendered
        /\ rendered[a].op = "markdown" /\ rendered[a].exc = ""
        /\ \E i, j \in 1..Len(children[a]) :
              /\ i < j
              /\ NodeMarkdown(children[a][i]).exc # ""
              /\ NodeMarkdown(children[a][j]).exc = ""
              /\ NodeMarkdown(children[a][j]).out # <<>>

(***************************************************************************)
(* C9.  json() is stable: every json() call on a node tree returns what    *)
(* the first json() call on that tree returned, whatever renders were made *)
(* in between.                                                             *)
(***************************************************************************)
C9_JsonStable ==
    \A a \in Articles :
        /\ first_json[a] # NotRendered
        /\ rendered[a] # NotRendered
        /\ rendered[a].op = "json"
        => rendered[a] = first_json[a]

(***************************************************************************)
(* C10.  An Image node whose source url has no scheme reports it with      *)
(* exactly one https: prefix in markdown() and in json(), whatever renders *)
(* the node has been through before.                                       *)
(***************************************************************************)
RECURSIVE ElementAt(_, _)
\* the element at child-index path `path` below el
ElementAt(el, path) ==
    IF path = <<>> THEN el ELSE ElementAt(el.contents[Head(path)], Tail(path))

\* the url the page gives for Image node n: the data-src of its <img>
SourceUrl(n) ==
    LET e == ElementAt(Document(server.readInfo["content"]), n.src)
        img == IF e.tag = "figure" THEN Find(e, "img") ELSE e
    IN IF "data-src" \in DOMAIN img.attrs THEN img.attrs["data-src"] ELSE None

\* the Image nodes of instance a whose source url has no scheme
SchemelessImages(a) ==
    {i \in 1..Len(AllNodes(children[a])) :
        /\ AllNodes(children[a])[i].type = "ImageNode"
        /\ SourceUrl(AllNodes(children[a])[i]) # None
        /\ Scheme(SourceUrl(AllNodes(children[a])[i])) = ""}

\* node n renders url `once` (the source url with one prefix) both ways
RendersOnce(n, once) ==
    /\ n.url \in {SubSeq(once, 2, Len(once)), once}
    /\ NodeJson(n).exc = ""
    /\ NodeJson(n).out.url = once
    /\ NodeJson(n).node.url = once
    /\ NodeMarkdown(n).node.url = once
    /\ NodeMarkdown(n).exc = "" =>
          /\ Contains(NodeMarkdown(n).out, <<"](">> \o once \o <<")">>)
          /\ ~Contains(NodeMarkdown(n).out, <<"https:", "https:">>)

C10_OneHttpsPrefix ==
    \A a \in Articles :
        \A i \in SchemelessImages(a) :
            RendersOnce(AllNodes(children[a])[i],
                        <<"https:">> \o SourceUrl(AllNodes(children[a])[i]))

\* an Image node that a render has already normalized, on an instance whose
\* last render was a json() that returned
C10_Witness ==
    \E a \in Articles :
        /\ rendered[a] # NotRendered /\ rendered[a].op = "json" /\ rendered[a].exc = ""
        /\ \E i \in SchemelessImages(a) :
              AllNodes(children[a])[i].url
                 = <<"https:">> \o SourceUrl(AllNodes(children[a])[i])

(***************************************************************************)
(* Pages of one element each, for the properties of single branches of the *)
(* walker and of single renderers: the page is fetched, parsed and         *)
(* rendered by the same operations as above.                               *)
(***************************************************************************)
\* the characters of the texts: reserved ones, blanks and a plain one
TextAlphabet == {"\\", "*", "_", "<", " ", "\t", "a"}

\* the longest text
MaxTextLen == 2

Texts == UNION {[1..n -> TextAlphabet] : n \in 1..MaxTextLen}

\* the ids of the cards, and the longest aid list
CardIds == {"100", "200", "7"}
MaxIds == 2
IdLists == UNION {[1..n -> CardIds] : n \in 1..MaxIds}

\* ",".join(ids)
JoinIds(ids) == Join([i \in 1..Len(ids) |-> <<ids[i]>>], <<",">>)

\* the card classes whose aid is a list, and those whose aid is one id,
\* with the two characters that precede the number in it
ListCardClasses == {"video-card", "caricature-card"}
SingleCardPrefix ==
    [cls \in {"article-card", "fanju-card", "music-card", "shop-card", "live-card"} |->
        CASE cls = "fanju-card" -> <<"e", "p">>
          [] cls = "music-card" -> <<"a", "u">>
          [] cls = "shop-card" -> <<"p", "w">>
          [] OTHER -> <<>>]

\* <figure class="img-box"><img class="cls" aid="aid"></figure>
CardFigure(cls, aid) ==
    El("figure", [class |-> << <<"img-box">> >>],
       <<El("img", [class |-> << <<cls>> >>, aid |-> aid], <<>>)>>)

ElementContents ==
    {<<Txt(t)>> : t \in Texts}
    \cup {<<CardFigure(cls, JoinIds(ids))>> : cls \in ListCardClasses, ids \in IdLists}
    \cup {<<CardFigure(cls, SingleCardPrefix[cls] \o <<id>>)>> :
             cls \in DOMAIN SingleCardPrefix, id \in CardIds}

ElementPayloads == {[readInfo |-> ReadInfo(c)] : c \in ElementContents}

InitElements ==
    /\ server \in ElementPayloads
    /\ get_all_data = [a \in Articles |-> NoneObj]
    /\ meta = [a \in Articles |-> NoneObj]
    /\ children = [a \in Articles |-> <<>>]
    /\ has_parsed = [a \in Articles |-> FALSE]
    /\ cache_pool = [article2dynamic |-> EmptyMap, dynamic2article |-> EmptyMap,
                     dynamic_is_article |-> EmptyMap, dynamic_is_opus |-> EmptyMap,
                     article_is_note |-> EmptyMap]
    /\ writes = [article2dynamic |-> [c \in {Cvid[a] : a \in Articles} |-> 0],
                 article_is_note |-> [c \in {Cvid[a] : a \in Articles} |-> 0]]
    /\ calls = <<>>
    /\ started = 0
    /\ last = NoCall
    /\ rendered = [a \in Articles |-> NotRendered]
    /\ first_json = [a \in Articles |-> NotRendered]

\* these pages hold no empty <a>: no link resolution is ever awaited
NextElements ==
    \/ \E op \in Ops, a \in Articles : Call(op, a)
    \/ \E i \in 1..MaxCalls, ok \in BOOLEAN : FetchReturn(i, ok)
    \/ \E a \in Articles : Markdown(a)
    \/ \E a \in Articles : Json(a)

SpecElements == InitElements /\ [][NextElements]_vars

(***************************************************************************)
(* C11.  TextNode.markdown() puts exactly one backslash before every       *)
(* reserved character of the text, escapes no backslash it inserted        *)
(* itself, turns tabs and spaces into &emsp; and leaves the node's text    *)
(* as it was.                                                              *)
(***************************************************************************)
ReservedChars == {"\\", "*", "$", "<", ">", "|", "~", "_"}

\* text with each character rewritten on its own, once
EscapedOnce(text) ==
    Flatten([i \in 1..Len(text) |->
               IF text[i] \in ReservedChars THEN <<"\\", text[i]>>
               ELSE IF text[i] \in {" ", "\t", "nbsp"} THEN <<"&emsp;">>
               ELSE <<text[i]>>])

C11_TextEscapedOnce ==
    \A a \in Articles :
        /\ \A i \in 1..Len(AllNodes(children[a])) :
              AllNodes(children[a])[i].type = "TextNode" =>
                 /\ NodeMarkdown(AllNodes(children[a])[i]).exc = ""
                 /\ NodeMarkdown(AllNodes(children[a])[i]).out
                       = EscapedOnce(AllNodes(children[a])[i].text)
                 /\ NodeMarkdown(AllNodes(children[a])[i]).node = AllNodes(children[a])[i]
        /\ /\ rendered[a] # NotRendered
           /\ rendered[a].op = "markdown" /\ rendered[a].exc = ""
           /\ \A i \in 1..Len(children[a]) : children[a][i].type = "TextNode"
           => rendered[a].text
                 = FrontMatter(meta[a])
                   \o Flatten([i \in 1..Len(children[a]) |->
                                 EscapedOnce(children[a][i].text)])

\* markdown() returned for a text that holds a backslash followed by
\* another reserved character
C11_Witness ==
    \E a \in Articles :
        /\ rendered[a] # NotRendered
        /\ rendered[a].op = "markdown" /\ rendered[a].exc = ""
        /\ Len(children[a]) = 1 /\ children[a][1].type = "TextNode"
        /\ children[a][1].text = <<"\\", "*">>

(***************************************************************************)
(* C12.  A <figure class="img-box"> whose <img> is a video-card or a       *)
(* caricature-card with n comma-separated ids gives exactly n VideoCard    *)
(* (ComicCard) nodes, one per id, in the order of the list, each with its  *)
(* id as an integer; every other card class gives exactly one card node.   *)
(***************************************************************************)
CardType ==
    [cls \in ListCardClasses \cup DOMAIN SingleCardPrefix |->
        CASE cls = "video-card" -> "VideoCardNode"
          [] cls = "caricature-card" -> "ComicCardNode"
          [] cls = "article-card" -> "ArticleCardNode"
          [] cls = "fanju-card" -> "BangumiCardNode"
          [] cls = "music-card" -> "MusicCardNode"
          [] cls = "shop-card" -> "ShopCardNode"
          [] cls = "live-card" -> "LiveCardNode"]

\* instance a has parsed the page whose only element is e
ParsedPageOf(a, e) ==
    has_parsed[a] /\ server.readInfo["content"] = <<e>>

C12_OneCardPerId ==
    \A a \in Articles :
        /\ \A cls \in ListCardClasses, ids \in IdLists :
              ParsedPageOf(a, CardFigure(cls, JoinIds(ids))) =>
                 children[a] = [i \in 1..Len(ids) |->
                                  [type |-> CardType[cls], src |-> <<1>>,
                                   id |-> Numerals[ids[i]]]]
        /\ \A cls \in DOMAIN SingleCardPrefix, id \in CardIds :
              ParsedPageOf(a, CardFigure(cls, SingleCardPrefix[cls] \o <<id>>)) =>
                 children[a] = <<[type |-> CardType[cls], src |-> <<1>>,
                                  id |-> Numerals[id]]>>
        /\ (\E i \in 1..Len(server.readInfo["content"]) :
               server.readInfo["content"][i] \in
                  {CardFigure(cls, JoinIds(ids)) : cls \in ListCardClasses, ids \in IdLists})
           /\ last # NoCall /\ last.op = "fetch_content" /\ last.walks > 0
           => last.exc \in {"", "NetworkException"}

\* the page <img class="video-card" aid="100,200"> was parsed into the two
\* cards 100 and 200
C12_Witness ==
    \E a \in Articles :
        /\ ParsedPageOf(a, CardFigure("video-card", <<"100", ",", "200">>))
        /\ Len(children[a]) = 2
        /\ children[a][1].type = "VideoCardNode" /\ children[a][1].id = 100
        /\ children[a][2].type = "VideoCardNode" /\ children[a][2].id = 200

(***************************************************************************)
(* The registry: the methods that fill and read cache_pool, on pages that  *)
(* carry or lack the fields get_all reads.                                 *)
(***************************************************************************)
RegistryPayloads ==
    {[readInfo |-> ReadInfo(<<PlainText>>)],
     [readInfo |-> Without(ReadInfo(<<PlainText>>), "dyn_id_str")],
     [readInfo |-> Without(ReadInfo(<<PlainText>>), "category")],
     [readInfo |-> [ReadInfo(<<PlainText>>) EXCEPT !.category = [id |-> 3]]]}

RegistryOps == Ops \cup LookupOps

InitRegistry ==
    /\ server \in RegistryPayloads
    /\ get_all_data = [a \in Articles |-> NoneObj]
    /\ meta = [a \in Articles |-> NoneObj]
    /\ children = [a \in Articles |-> <<>>]
    /\ has_parsed = [a \in Articles |-> FALSE]
    /\ cache_pool = [article2dynamic |-> EmptyMap, dynamic2article |-> EmptyMap,
                     dynamic_is_article |-> EmptyMap, dynamic_is_opus |-> EmptyMap,
                     article_is_note |-> EmptyMap]
    /\ writes = [article2dynamic |-> [c \in {Cvid[a] : a \in Articles} |-> 0],
                 article_is_note |-> [c \in {Cvid[a] : a \in Articles} |-> 0]]
    /\ calls = <<>>
    /\ started = 0
    /\ last = NoCall
    /\ rendered = [a \in Articles |-> NotRendered]
    /\ first_json = [a \in Articles |-> NotRendered]

NextRegistry ==
    \/ \E op \in RegistryOps, a \in Articles : Call(op, a)
    \/ \E i \in 1..MaxCalls, ok \in BOOLEAN : FetchReturn(i, ok)

SpecRegistry == InitRegistry /\ [][NextRegistry]_vars

(***************************************************************************)
(* C13.  The registry is set-once per id: the article2dynamic entry and    *)
(* the article_is_note entry of a cvid are each assigned at most once,     *)
(* whatever calls are made.                                                *)
(***************************************************************************)
C13_RegistrySetOnce ==
    \A a \in Articles :
        /\ writes.article2dynamic[Cvid[a]] <= 1
        /\ writes.article_is_note[Cvid[a]] <= 1

(***************************************************************************)
(* C14.  json() is a lossless re-expression of a node: two nodes that      *)
(* differ in a field have different json() results.  For the Paragraph     *)
(* nodes of a parsed page: the json() of the node differs from the json()  *)
(* of the same node with any other alignment.                              *)
(***************************************************************************)
Aligns == {"left", "center", "right"}

C14_JsonTellsAlignsApart ==
    \A a \in Articles :
        has_parsed[a] =>
            \A i \in 1..Len(AllNodes(children[a])) :
                AllNodes(children[a])[i].type = "ParagraphNode"
                /\ NodeJson(AllNodes(children[a])[i]).exc = ""
                => \A al \in Aligns \ {AllNodes(children[a])[i].align} :
                      NodeJson([AllNodes(children[a])[i] EXCEPT !.align = al]).out
                      # NodeJson(AllNodes(children[a])[i]).out

(***************************************************************************)
(* C15.  A <span> whose style contains text-decoration: line-through       *)
(* yields exactly one Del node holding the parsed children, and nothing    *)
(* else in the parent's sequence: of the nodes a parsed page has at its    *)
(* top level, exactly one comes from such a span or from inside it, and    *)
(* that one is the Del node.                                               *)
(***************************************************************************)
LineThrough(e) ==
    /\ ~IsText(e) /\ e.tag = "span"
    /\ "style" \in DOMAIN e.attrs
    /\ Contains(e.attrs["style"], <<"text-decoration: line-through">>)

\* the positions of list whose node was made from the i-th element of the
\* page or from an element inside it
NodesFrom(list, i) == {k \in 1..Len(list) : list[k].src[1] = i}

C15_LineThroughYieldsOneDel ==
    \A a \in Articles :
        has_parsed[a] =>
            \A i \in 1..Len(server.readInfo["content"]) :
                LineThrough(server.readInfo["content"][i]) =>
                    \E k \in 1..Len(children[a]) :
                        /\ NodesFrom(children[a], i) = {k}
                        /\ children[a][k].type = "DelNode"

(***************************************************************************)
(* C16.  An <img> the walker meets directly yields exactly one node, and   *)
(* an Image node with the url of data-src when it has no class attribute;  *)
(* parsing does not fail on it.  For a page whose only element that can    *)
(* fail is such an <img>: a fetch_content() call that walked the page      *)
(* ended without an exception, and the tree holds exactly one node for the *)
(* <img>, the Image node with its data-src.                                *)
(***************************************************************************)
ClasslessImg(e) == ~IsText(e) /\ e.tag = "img" /\ "class" \notin DOMAIN e.attrs

C16_ClasslessImgIsImage ==
    \A a \in Articles :
        /\ server.readInfo["content"] = <<FigVideo, ImgNoClass>>
        /\ ClasslessImg(server.readInfo["content"][2])
        /\ last # NoCall /\ last.op = "fetch_content" /\ last.walks > 0
        => /\ last.exc = ""
           /\ \E k \in 1..Len(children[a]) :
                 /\ NodesFrom(children[a], 2) = {k}
                 /\ children[a][k].type = "ImageNode"
                 /\ children[a][k].url = ImgNoClass.attrs["data-src"]

(***************************************************************************)
(* C17.  In every state between operations (no call is suspended), an      *)
(* instance that holds a cached raw payload has its article2dynamic and    *)
(* its article_is_note entry in the registry, and a turn_to_dynamic() or   *)
(* is_note() call that ended on such an instance without a failed fetch    *)
(* ended without an exception; also after a get_all() that raised          *)
(* part-way.                                                               *)
(***************************************************************************)
C17_CachedHasRegistry ==
    \A a \in Articles :
        calls = <<>> /\ Cached(a) =>
            /\ RegistryHas(cache_pool, "turn_to_dynamic", a)
            /\ RegistryHas(cache_pool, "is_note", a)
            /\ last.op \in LookupOps => last.exc \in {"", "NetworkException"}

(***************************************************************************)
(* C18.  fetch_content() leaves the cached raw payload unchanged and a     *)
(* repeated fetch_content() yields the same metadata and the same node     *)
(* tree as the first: in every step the cached payload, once there, is the *)
(* page's data with its content field; the metadata of a parsed instance   *)
(* is readInfo without content; and a fetch_content() call that ends       *)
(* without an exception on an instance that is already parsed leaves the   *)
(* tree with the nodes it had (the same types at the same places; the      *)
(* renderers' normalisation of url and code apart).                        *)
(***************************************************************************)
\* a call ended in this step
CallEnded == Len(calls') - started' < Len(calls) - started

\* the types of the nodes of a tree, in order, with the places they come from
Shape(list) ==
    [k \in 1..Len(AllNodes(list)) |->
        <<AllNodes(list)[k].type, AllNodes(list)[k].src>>]

C18_RepeatedFetchContentSame ==
    [][\A a \in Articles :
          /\ Cached(a)' =>
                /\ get_all_data'[a] = server
                /\ "content" \in DOMAIN get_all_data'[a].readInfo
          /\ has_parsed'[a] => meta'[a] = Without(server.readInfo, "content")
          /\ has_parsed[a] /\ CallEnded /\ last'.op = "fetch_content"
             /\ last'.art = a /\ last'.exc = ""
             => Shape(children'[a]) = Shape(children[a])]_vars

=============================================================================
